---------------------------- MODULE Spec2Model ----------------------------
(***************************************************************************)
(* Membership purchase, payment reconciliation and role guards of the      *)
(* footy backend (src/app/api/v1/membership.py and its collaborators).     *)
(*                                                                         *)
(* Money is kept in integer cents.  Dates are whole days.  The database    *)
(* is the committed content of the user and membership tables; a request   *)
(* that has flushed an INSERT but not committed holds the row in its own   *)
(* transaction (reqs[r].flushed) until a commit publishes it.              *)
(***************************************************************************)
EXTENDS Integers, Sequences, FiniteSets, TLC

VARIABLES
    users,        \* user table: id -> row (exists = FALSE: no such row)
    memberships,  \* membership table, committed rows in id order
    intents,      \* payment intents held by the payment provider, in id order
    reqs,         \* reconciliation requests in flight (one DB session each)
    resp,         \* the response that waits to be sent (R0: none)
    lastHps,      \* event of the handle_payment_success run that returned in the previous step
    now,          \* the current day
    applications, \* application table, committed rows in id order
    appReqs,      \* apply_to_vacancy requests in flight (one DB session each)
    messages      \* message table, committed rows in id order

vars == <<users, memberships, intents, reqs, resp, lastHps, now, applications, appReqs, messages>>

-----------------------------------------------------------------------------
(* Bounds of the model *)

MaxMemberships == 3
MaxIntents == 2
MaxReqs == 2
MaxDays == 32
MaxApplications == 3
MaxMessages == 3

-----------------------------------------------------------------------------
(* Enumerations and constants of the program *)

\* db/tables/user.py: UserRole
CANDIDATE == "candidate"
TEAM == "team"
ADMIN == "admin"

\* db/tables/membership.py: MembershipPlan, in declaration order
MembershipPlan == <<"basic", "premium", "professional">>
PlanSet == {MembershipPlan[i] : i \in DOMAIN MembershipPlan}

\* db/tables/membership.py: MembershipStatus
ACTIVE == "active"
EXPIRED == "expired"
CANCELLED == "cancelled"
PENDING == "pending"

BasicCents == 999
PremiumCents == 1999
ProfessionalCents == 2999

\* api/v1/membership.py: MEMBERSHIP_PRICES (9.99, 19.99, 29.99), in cents
MutPricesTruncated(p) ==
    CASE p = "basic" -> BasicCents
      [] p = "premium" -> PremiumCents - 1
      [] p = "professional" -> ProfessionalCents
MEMBERSHIP_PRICES(p) ==
    CASE p = "basic" -> BasicCents
      [] p = "premium" -> PremiumCents
      [] p = "professional" -> ProfessionalCents

\* int(amount * 100) on the IEEE-754 doubles 9.99, 19.99, 29.99:
\* 9.99 * 100 = 999.0, 19.99 * 100 = 1998.9999999999998, 29.99 * 100 = 2999.0,
\* and int() truncates.
PremiumTimes100Truncated == 1998
IntCents(p) ==
    CASE p = "basic" -> BasicCents
      [] p = "premium" -> PremiumTimes100Truncated
      [] p = "professional" -> ProfessionalCents

\* timedelta(days=30)
PeriodDays == 30

\* list(MembershipPlan).index(plan), zero-based as in Python
MutPlanIndexReversed(p) ==
    Len(MembershipPlan) - (CHOOSE i \in DOMAIN MembershipPlan : MembershipPlan[i] = p)
PlanIndex(p) == (CHOOSE i \in DOMAIN MembershipPlan : MembershipPlan[i] = p) - 1

-----------------------------------------------------------------------------
(* Users *)

Cand1 == "cand1"
Cand2 == "cand2"
Team1 == "team1"
Admin1 == "admin1"
UserIds == {Cand1, Cand2, Team1, Admin1}
\* a user id that appears in provider metadata but has no row in the user table
GhostUser == "ghost"
\* metadata key absent: metadata.get(...) is None
NoMeta == "absent"

\* logo_file_path and cv_file_path are kept as "set" / "unset"
NoUser ==
    [exists |-> FALSE, role |-> "none", is_active |-> FALSE, is_approved |-> FALSE,
     logo_file_path |-> "unset", cv_file_path |-> "unset"]

UserRow(role, active, approved) ==
    [exists |-> TRUE, role |-> role, is_active |-> active, is_approved |-> approved,
     logo_file_path |-> "unset", cv_file_path |-> "unset"]

UserExists(u) == u \in UserIds /\ users[u].exists

-----------------------------------------------------------------------------
(* Membership table *)

\* A Membership row; renewal_date = start_date + timedelta(days=30) at every site
\* that builds one.  pi is stripe_payment_intent_id (0: NULL).
MembershipRow(u, plan, status, start, pi) ==
    [user_id |-> u, plan_type |-> plan, status |-> status,
     price |-> MEMBERSHIP_PRICES(plan), start_date |-> start,
     renewal_date |-> start + PeriodDays, stripe_payment_intent_id |-> pi]

\* Rows the query of get_active_membership_by_user_id selects.
ActiveRows(u) ==
    {i \in DOMAIN memberships :
        memberships[i].user_id = u /\ memberships[i].status = ACTIVE}

\* MembershipCrud.get_active_membership_by_user_id: result.scalars().first() of a
\* query with no ORDER BY; any selected row may come first.  The empty set is None.
MutGetActiveMembershipNone(u) == {}
MutGetActiveMembershipAnyStatus(u) ==
    {i \in DOMAIN memberships : memberships[i].user_id = u}
get_active_membership_by_user_id(u) == ActiveRows(u)

ActiveCount(u) == Cardinality(ActiveRows(u))

-----------------------------------------------------------------------------
(* Payment provider *)

\* A payment intent as the provider holds it.  Metadata values are strings at
\* the provider; str(user.id) is injective, so the id stands for its string.
Intent(u, plan, amount, upgrade) ==
    [user_id |-> u, plan_type |-> plan, amount |-> amount,
     status |-> "requires_payment_method", upgrade |-> upgrade]

IntentIds == DOMAIN intents

\* The provider refuses a payment intent whose amount is not a positive integer.
ProviderAccepts(amount) == amount >= 1

-----------------------------------------------------------------------------
(* Responses *)

R0 ==
    [op |-> "none", caller |-> NoMeta, code |-> 0, detail |-> "none",
     provider |-> FALSE, changed |-> FALSE, callerActive |-> FALSE,
     callerApproved |-> FALSE, sig |-> "none", parsed |-> FALSE, inserted |-> FALSE,
     plan |-> "none", status |-> "none", price |-> 0, amount |-> 0,
     sid |-> 0, dup |-> FALSE, days |-> 0, cur |-> "none", handler |-> "none",
     rowCommitted |-> FALSE, userActivated |-> FALSE, target |-> NoMeta,
     rows |-> <<>>]

Reply(op, caller, code, detail) ==
    [R0 EXCEPT !.op = op, !.caller = caller, !.code = code, !.detail = detail,
               !.callerActive = (caller \in UserIds /\ users[caller].is_active),
               !.callerApproved = (caller \in UserIds /\ users[caller].is_approved)]

\* The response of the last request has been sent: no response is pending.
NoResponsePending == resp = R0

\* Writes the response; changed records whether this step changed a committed
\* user or membership row.
Respond(r) ==
    resp' = [r EXCEPT !.changed = (users' # users \/ memberships' # memberships)]

-----------------------------------------------------------------------------
(* Authentication dependencies and role guards *)

\* api/dependencies/user.py: get_current_active_user
get_current_active_user(u) ==
    IF ~users[u].is_active THEN "inactive" ELSE "ok"

\* api/v1/membership.py: require_candidate_role
MutRequireCandidateNoRoleCheck(u) == get_current_active_user(u)
require_candidate_role(u) ==
    IF get_current_active_user(u) # "ok" THEN get_current_active_user(u)
    ELSE IF users[u].role # CANDIDATE THEN "forbidden"
    ELSE "ok"

\* HTTP status of a failed dependency: 400 "Inactive user", 403 Forbidden
GuardCode(g) == IF g = "inactive" THEN 400 ELSE 403

-----------------------------------------------------------------------------
(* Reconciliation requests in flight *)

ReqIds == 1..MaxReqs

IdleReq ==
    [pc |-> "idle", kind |-> "none", user_id |-> NoMeta, plan |-> "none", pi |-> 0,
     start |-> 0, dup |-> FALSE, sig |-> "none", flushed |-> FALSE,
     rowCommitted |-> FALSE, userActivated |-> FALSE, activeAtStart |-> FALSE,
     overlap |-> FALSE]

\* the free session with the lowest number
FreeReq == CHOOSE r \in ReqIds : reqs[r].pc = "idle" /\ \A q \in ReqIds : reqs[q].pc = "idle" => r <= q
HasFreeReq == \E r \in ReqIds : reqs[r].pc = "idle"
\* no reconciliation request is in flight
NoRequestOpen == \A r \in ReqIds : reqs[r].pc = "idle"

\* rows already committed plus rows flushed by open transactions
RowsInUse == Len(memberships) + Cardinality({r \in ReqIds : reqs[r].flushed})

-----------------------------------------------------------------------------
(* Pro-rated upgrade price *)

\* int() of Python: truncation toward zero
TruncDiv(a, b) == IF a >= 0 THEN a \div b ELSE -((-a) \div b)

Sign(a) == IF a > 0 THEN 1 ELSE IF a < 0 THEN -1 ELSE 0

\* daily_new - daily_current in IEEE-754 doubles: 29.99/30 - 9.99/30 and
\* 29.99/30 - 19.99/30 come out below the exact quotient, 19.99/30 - 9.99/30
\* does not (checked against CPython for every day count from -40 to 400).
DailyDiffFallsShort(curCents, newCents) == newCents = ProfessionalCents

\* upgrade_membership: int(upgrade_amount * 100) with
\* upgrade_amount = (new_price / 30 - current_price / 30) * days_remaining.
\* The exact value in cents is (newCents - curCents) * days / 30; int() truncates
\* it, and where the exact value is a whole number of cents the double that
\* fell short truncates to one cent less in magnitude.
RoundedCents(curCents, newCents, days) ==
    LET n == (newCents - curCents) * days
    IN  Sign(n) * (((2 * (n * Sign(n))) + PeriodDays) \div (2 * PeriodDays))
UpgradeCents(curCents, newCents, days) ==
    LET n == (newCents - curCents) * days
        q == TruncDiv(n, PeriodDays)
    IN  IF DailyDiffFallsShort(curCents, newCents) /\ n # 0 /\ n % PeriodDays = 0
        THEN q - Sign(n)
        ELSE q

-----------------------------------------------------------------------------
(* Purchase endpoints *)

\* no handle_payment_success run returned in the previous step
NoEv == <<0, "none">>

\* create_stripe_checkout_session(items, customer_email, ride_id, ride_hash=None):
\* the parameters without a default
CheckoutRequiredParams == {"items", "customer_email", "ride_id"}
\* the keywords create_checkout_session passes
CheckoutCallKeywords == {"items", "customer_email"}
\* Python binds the call only when every required parameter is given;
\* otherwise it raises TypeError before the function body runs.
CheckoutCallBinds == CheckoutRequiredParams \subseteq CheckoutCallKeywords

\* the metadata keys create_stripe_checkout_session puts on the session
CheckoutSessionMetadata == {"environment", "ride_id", "ride_hash"}
\* the metadata keys create_payment_intent puts on the payment intent
PaymentIntentMetadata == {"user_id", "plan_type", "user_email"}

\* POST /memberships/create-checkout-session
CreateCheckoutSession(u, plan, ok) ==
    /\ NoResponsePending
    /\ UserExists(u)
    /\ ok => Len(intents) < MaxIntents
    /\ lastHps' = NoEv
    /\ UNCHANGED <<users, memberships, reqs, now, applications, appReqs, messages>>
    /\ LET g == require_candidate_role(u)
           op == "create_checkout_session"
       IN  IF g # "ok"
           THEN /\ UNCHANGED intents
                /\ Respond([Reply(op, u, GuardCode(g), g) EXCEPT !.plan = plan])
           ELSE IF get_active_membership_by_user_id(u) # {}
           THEN /\ UNCHANGED intents
                /\ Respond([Reply(op, u, 400, "has_active") EXCEPT !.plan = plan])
           ELSE IF ~CheckoutCallBinds
           THEN \* TypeError is no StripeError: it leaves the handler uncaught
                /\ UNCHANGED intents
                /\ Respond([Reply(op, u, 500, "type_error") EXCEPT !.plan = plan])
           ELSE IF ~ok
           THEN /\ UNCHANGED intents
                /\ Respond([Reply(op, u, 400, "stripe_error")
                              EXCEPT !.plan = plan, !.provider = TRUE])
           ELSE \* the session's payment intent carries none of the session's metadata
                /\ intents' = Append(intents, Intent(NoMeta, NoMeta, IntCents(plan), FALSE))
                /\ Respond([Reply(op, u, 201, "ok")
                              EXCEPT !.plan = plan, !.provider = TRUE,
                                     !.sid = Len(intents) + 1])

\* POST /memberships/create-payment-intent
CreatePaymentIntent(u, plan, ok) ==
    /\ NoResponsePending
    /\ UserExists(u)
    /\ ok => Len(intents) < MaxIntents
    /\ lastHps' = NoEv
    /\ UNCHANGED <<users, memberships, reqs, now, applications, appReqs, messages>>
    /\ LET g == require_candidate_role(u)
           op == "create_payment_intent"
       IN  IF g # "ok"
           THEN /\ UNCHANGED intents
                /\ Respond([Reply(op, u, GuardCode(g), g) EXCEPT !.plan = plan])
           ELSE IF get_active_membership_by_user_id(u) # {}
           THEN /\ UNCHANGED intents
                /\ Respond([Reply(op, u, 400, "has_active") EXCEPT !.plan = plan])
           ELSE IF ~(ok /\ ProviderAccepts(IntCents(plan)))
           THEN /\ UNCHANGED intents
                /\ Respond([Reply(op, u, 400, "stripe_error")
                              EXCEPT !.plan = plan, !.provider = TRUE])
           ELSE /\ intents' = Append(intents, Intent(u, plan, IntCents(plan), FALSE))
                /\ Respond([Reply(op, u, 200, "ok")
                              EXCEPT !.plan = plan, !.provider = TRUE,
                                     !.amount = MEMBERSHIP_PRICES(plan),
                                     !.sid = Len(intents) + 1])

\* GET /memberships/my-membership
GetMyMembership(u) ==
    /\ NoResponsePending
    /\ UserExists(u)
    /\ lastHps' = NoEv
    /\ UNCHANGED <<users, memberships, intents, reqs, now, applications, appReqs, messages>>
    /\ LET g == require_candidate_role(u)
           op == "my_membership"
       IN  IF g # "ok"
           THEN Respond(Reply(op, u, GuardCode(g), g))
           ELSE IF get_active_membership_by_user_id(u) = {}
           THEN Respond(Reply(op, u, 404, "not_found"))
           ELSE \E i \in get_active_membership_by_user_id(u) :
                    Respond([Reply(op, u, 200, "ok")
                               EXCEPT !.plan = memberships[i].plan_type,
                                      !.status = memberships[i].status,
                                      !.price = memberships[i].price,
                                      !.rows = <<i>>])

\* POST /memberships/upgrade
UpgradeMembership(u, plan, ok) ==
    /\ NoResponsePending
    /\ UserExists(u)
    /\ ok => Len(intents) < MaxIntents
    /\ lastHps' = NoEv
    /\ UNCHANGED <<users, memberships, reqs, now, applications, appReqs, messages>>
    /\ LET g == require_candidate_role(u)
           op == "upgrade"
       IN  IF g # "ok"
           THEN /\ UNCHANGED intents
                /\ Respond([Reply(op, u, GuardCode(g), g) EXCEPT !.plan = plan])
           ELSE IF get_active_membership_by_user_id(u) = {}
           THEN /\ UNCHANGED intents
                /\ Respond([Reply(op, u, 400, "no_active") EXCEPT !.plan = plan])
           ELSE \E i \in get_active_membership_by_user_id(u) :
                LET cur == memberships[i]
                    days == cur.renewal_date - now
                    amount == UpgradeCents(cur.price, MEMBERSHIP_PRICES(plan), days)
                    r == [Reply(op, u, 400, "not_upgrade")
                            EXCEPT !.plan = plan, !.cur = cur.plan_type, !.days = days]
                IN  IF PlanIndex(plan) <= PlanIndex(cur.plan_type)
                    THEN /\ UNCHANGED intents
                         /\ Respond(r)
                    ELSE IF ~(ok /\ ProviderAccepts(amount))
                    THEN /\ UNCHANGED intents
                         /\ Respond([r EXCEPT !.detail = "stripe_error", !.provider = TRUE,
                                              !.amount = amount])
                    ELSE /\ intents' = Append(intents, Intent(u, plan, amount, TRUE))
                         /\ Respond([r EXCEPT !.code = 200, !.detail = "ok",
                                              !.provider = TRUE, !.amount = amount,
                                              !.sid = Len(intents) + 1])

-----------------------------------------------------------------------------
(* Reconciliation: the steps of one request on its own database session *)

\* A request that is about to insert.  activeAtStart records whether the user
\* had an active membership when the handler got here; overlap records whether
\* another request for the same user had got here and not inserted yet.
NewReq(kind, u, plan, pi, dup, sig) ==
    [IdleReq EXCEPT !.pc = "create", !.kind = kind, !.user_id = u, !.plan = plan,
                    !.pi = pi, !.start = now, !.dup = dup, !.sig = sig,
                    !.activeAtStart = (ActiveRows(u) # {}),
                    !.overlap = (\E q \in ReqIds : /\ reqs[q].pc = "create"
                                                  /\ reqs[q].user_id = u)]

\* the row membership_data describes
ReqRow(q) == MembershipRow(q.user_id, q.plan, ACTIVE, q.start, q.pi)

\* The response of a reconciliation request that ends: the webhook answers
\* {"status": "success"} or, from its except Exception branch, 400; confirm-payment
\* answers the membership or, on an exception that is no StripeError, 500.
ReqReply(q, okay) ==
    [Reply(IF q.kind = "webhook" THEN "webhook" ELSE "confirm_payment",
           q.user_id,
           IF okay THEN 200 ELSE IF q.kind = "webhook" THEN 400 ELSE 500,
           IF okay THEN "ok" ELSE "handler_error")
       EXCEPT !.plan = q.plan, !.sid = q.pi, !.dup = q.dup, !.sig = q.sig,
              !.parsed = (q.kind = "webhook"), !.inserted = (q.flushed \/ q.rowCommitted),
              !.status = IF okay THEN ACTIVE ELSE "none",
              !.price = IF okay THEN MEMBERSHIP_PRICES(q.plan) ELSE 0,
              !.handler = IF q.kind = "webhook" THEN "success" ELSE "none",
              !.rowCommitted = q.rowCommitted, !.userActivated = q.userActivated]

\* An exception ends the request: what its session had not committed is rolled back.
Abort(r) ==
    /\ reqs' = [reqs EXCEPT ![r] = IdleReq]
    /\ UNCHANGED <<users, memberships, intents, now, applications, appReqs, messages>>
    /\ lastHps' = NoEv
    /\ Respond(ReqReply(reqs[r], FALSE))

\* BaseCrud.create as its callers use it ("Create user but don't commit yet",
\* user.id read right after): INSERT and flush inside the session's transaction.
\* Membership.user_id is ForeignKey("user.id"): the flush raises when no such user.
BaseCreate(r) ==
    IF UserExists(reqs[r].user_id)
    THEN /\ reqs' = [reqs EXCEPT ![r].flushed = TRUE, ![r].pc = "activate"]
         /\ UNCHANGED <<users, memberships, intents, resp, now, applications, appReqs, messages>>
         /\ lastHps' = NoEv
    ELSE Abort(r)

\* MembershipCrud.create_membership: INSERT and commit at once (no caller in the
\* reconciliation handlers)
CreateAndCommit(r) ==
    IF UserExists(reqs[r].user_id)
    THEN /\ memberships' = Append(memberships, ReqRow(reqs[r]))
         /\ reqs' = [reqs EXCEPT ![r].rowCommitted = TRUE, ![r].pc = "activate"]
         /\ UNCHANGED <<users, intents, resp, now, applications, appReqs, messages>>
         /\ lastHps' = NoEv
    ELSE Abort(r)

\* UsersCrud.activate_user on the session of request r: select the user; when
\* found, set is_active and commit, which also commits the row the session flushed.
activate_user(r) ==
    LET q == reqs[r] IN
    /\ IF UserExists(q.user_id)
       THEN /\ users' = [users EXCEPT ![q.user_id].is_active = TRUE]
            /\ memberships' = IF q.flushed THEN Append(memberships, ReqRow(q))
                              ELSE memberships
            /\ reqs' = [reqs EXCEPT ![r].flushed = FALSE,
                                    ![r].rowCommitted = q.rowCommitted \/ q.flushed,
                                    ![r].userActivated = TRUE,
                                    ![r].pc = "commit"]
       ELSE /\ reqs' = [reqs EXCEPT ![r].pc = "commit"]
            /\ UNCHANGED <<users, memberships>>
    /\ UNCHANGED <<intents, resp, now, applications, appReqs, messages>>
    /\ lastHps' = NoEv

\* BaseCrud.commit_session: commit whatever the session still holds, then the
\* handler returns.
commit_session(r) ==
    LET q == reqs[r] IN
    /\ memberships' = IF q.flushed THEN Append(memberships, ReqRow(q)) ELSE memberships
    /\ reqs' = [reqs EXCEPT ![r] = IdleReq]
    /\ UNCHANGED <<users, intents, now, applications, appReqs, messages>>
    /\ lastHps' = IF q.kind = "webhook" THEN <<q.pi, q.user_id>> ELSE NoEv
    /\ Respond(ReqReply([q EXCEPT !.rowCommitted = q.rowCommitted \/ q.flushed], TRUE))

\* handle_payment_success: await membership_crud.create(membership_data)
MutHpsCreateCommits(r) ==
    /\ NoResponsePending
    /\ reqs[r].kind = "webhook" /\ reqs[r].pc = "create"
    /\ CreateAndCommit(r)
MutHpsCreateUnlessActive(r) ==
    /\ NoResponsePending
    /\ reqs[r].kind = "webhook" /\ reqs[r].pc = "create"
    /\ IF ActiveRows(reqs[r].user_id) # {}
       THEN /\ reqs' = [reqs EXCEPT ![r].pc = "activate"]
            /\ UNCHANGED <<users, memberships, intents, resp, now, applications, appReqs, messages>>
            /\ lastHps' = NoEv
       ELSE BaseCreate(r)
HpsCreate(r) ==
    /\ NoResponsePending
    /\ reqs[r].kind = "webhook" /\ reqs[r].pc = "create"
    /\ BaseCreate(r)

\* handle_payment_success: await user_crud.activate_user(user_id)
HpsActivate(r) ==
    /\ NoResponsePending
    /\ reqs[r].kind = "webhook" /\ reqs[r].pc = "activate"
    /\ activate_user(r)

\* handle_payment_success: await membership_crud.commit_session()
HpsCommit(r) ==
    /\ NoResponsePending
    /\ reqs[r].kind = "webhook" /\ reqs[r].pc = "commit"
    /\ commit_session(r)

\* confirm_payment: membership = await membership_crud.create(membership_data)
ConfirmCreate(r) ==
    /\ NoResponsePending
    /\ reqs[r].kind = "confirm" /\ reqs[r].pc = "create"
    /\ BaseCreate(r)

\* confirm_payment: await user_crud.activate_user(current_user.id)
ConfirmActivate(r) ==
    /\ NoResponsePending
    /\ reqs[r].kind = "confirm" /\ reqs[r].pc = "activate"
    /\ activate_user(r)

\* confirm_payment: await membership_crud.commit_session(); return the membership
ConfirmCommit(r) ==
    /\ NoResponsePending
    /\ reqs[r].kind = "confirm" /\ reqs[r].pc = "commit"
    /\ commit_session(r)

\* A database call of an open request raises (connection lost, statement failed).
ReqFail(r) ==
    /\ NoResponsePending
    /\ reqs[r].pc \in {"create", "activate", "commit"}
    /\ Abort(r)

-----------------------------------------------------------------------------
(* Reconciliation entry points *)

SUCCEEDED == "payment_intent.succeeded"
PAYMENT_FAILED == "payment_intent.payment_failed"

\* An event as the payload states it.  sig and parsed record the stripe-signature
\* header and the parse result of the request that delivered it.
Event(type, pi, u, plan) ==
    [type |-> type, pi |-> pi, user_id |-> u, plan_type |-> plan,
     sig |-> "none", parsed |-> FALSE]

\* Events the provider signs: about the intents it holds, about objects that are
\* no payment intent, and about payment intents of the account that were not
\* opened by the membership endpoints (no metadata, or metadata naming no user row).
ProviderEvents ==
    {Event(SUCCEEDED, i, intents[i].user_id, intents[i].plan_type) :
        i \in {j \in IntentIds : intents[j].status = "succeeded"}}
    \cup {Event(PAYMENT_FAILED, i, intents[i].user_id, intents[i].plan_type) :
        i \in {j \in IntentIds : intents[j].status # "succeeded"}}
    \cup {Event("customer.created", 0, NoMeta, NoMeta),
          Event(SUCCEEDED, 0, NoMeta, NoMeta),
          Event(SUCCEEDED, 0, GhostUser, "basic"),
          Event(SUCCEEDED, 0, Cand1, "gold"),
          Event(SUCCEEDED, 0, Cand1, NoMeta)}

\* What anyone can post to the public webhook URL.
ForgedEvents ==
    {Event(SUCCEEDED, 0, Cand1, "professional"), Event(PAYMENT_FAILED, 0, Cand1, "basic")}

\* stripe.Webhook.construct_event: verifies the signature header against the raw
\* payload, then parses the payload.
construct_event(sig, parseOk) ==
    IF sig # "valid" THEN "SignatureVerificationError"
    ELSE IF ~parseOk THEN "ValueError"
    ELSE "ok"

WebhookReply(ev, code, detail, handler) ==
    [Reply("webhook", ev.user_id, code, detail)
       EXCEPT !.handler = handler, !.sid = ev.pi, !.sig = ev.sig, !.parsed = ev.parsed,
              !.plan = ev.plan_type,
              !.dup = (handler = "success" /\ lastHps = <<ev.pi, ev.user_id>>)]

\* stripe_webhook: except Exception turns an exception of a handler into 400
MutWebhookSwallowsException(ev, handler) == Respond(WebhookReply(ev, 200, "ok", handler))
webhook_exception(ev, handler) == Respond(WebhookReply(ev, 400, "handler_error", handler))

\* handle_payment_success up to its first INSERT: metadata, then the check for an
\* active membership.
handle_payment_success(ev) ==
    IF ev.user_id = NoMeta
    THEN \* int(None): TypeError
         /\ UNCHANGED <<users, memberships, intents, reqs, now, applications, appReqs, messages>>
         /\ lastHps' = NoEv
         /\ webhook_exception(ev, "success")
    ELSE IF ev.plan_type \notin PlanSet
    THEN \* MembershipPlan(...): ValueError
         /\ UNCHANGED <<users, memberships, intents, reqs, now, applications, appReqs, messages>>
         /\ lastHps' = NoEv
         /\ webhook_exception(ev, "success")
    ELSE IF get_active_membership_by_user_id(ev.user_id) # {}
    THEN \* already processed
         /\ UNCHANGED <<users, memberships, intents, reqs, now, applications, appReqs, messages>>
         /\ lastHps' = <<ev.pi, ev.user_id>>
         /\ Respond(WebhookReply(ev, 200, "ok", "success"))
    ELSE /\ HasFreeReq
         /\ RowsInUse < MaxMemberships
         /\ reqs' = [reqs EXCEPT ![FreeReq] =
                        NewReq("webhook", ev.user_id, ev.plan_type, ev.pi,
                               lastHps = <<ev.pi, ev.user_id>>, ev.sig)]
         /\ UNCHANGED <<users, memberships, intents, resp, now, applications, appReqs, messages>>
         /\ lastHps' = NoEv

\* handle_payment_failure: prints
MutHandlePaymentFailureCancels(ev) ==
    /\ memberships' = [i \in DOMAIN memberships |->
                          IF memberships[i].user_id = ev.user_id
                          THEN [memberships[i] EXCEPT !.status = CANCELLED]
                          ELSE memberships[i]]
    /\ UNCHANGED <<users, intents, reqs, now, applications, appReqs, messages>>
    /\ lastHps' = NoEv
    /\ Respond(WebhookReply(ev, 200, "ok", "failure"))
handle_payment_failure(ev) ==
    /\ UNCHANGED <<users, memberships, intents, reqs, now, applications, appReqs, messages>>
    /\ lastHps' = NoEv
    /\ Respond(WebhookReply(ev, 200, "ok", "failure"))

WebhookInputs ==
    {<<"valid", TRUE, ev>> : ev \in ProviderEvents}
    \cup {<<sig, parseOk, ev>> : sig \in {"missing", "invalid"}, parseOk \in BOOLEAN,
                                  ev \in ForgedEvents}
    \cup {<<"valid", FALSE, ev>> : ev \in ForgedEvents}
    \cup {<<"invalid", TRUE, ev>> : ev \in ProviderEvents}

\* POST /memberships/webhook.  Every HTTPException raised inside the try is
\* caught by except Exception and raised again as 400.
MutStripeWebhookUnverified(sig, parseOk, payload) ==
    LET ev == [payload EXCEPT !.sig = sig, !.parsed = parseOk] IN
    /\ NoResponsePending
    /\ <<sig, parseOk, payload>> \in WebhookInputs
    /\ IF ~parseOk
       THEN /\ UNCHANGED <<users, memberships, intents, reqs, now, applications, appReqs, messages>>
            /\ lastHps' = NoEv
            /\ Respond(WebhookReply(ev, 400, "invalid_payload", "none"))
       ELSE IF ev.type = SUCCEEDED THEN handle_payment_success(ev)
       ELSE IF ev.type = PAYMENT_FAILED THEN handle_payment_failure(ev)
       ELSE /\ UNCHANGED <<users, memberships, intents, reqs, now, applications, appReqs, messages>>
            /\ lastHps' = NoEv
            /\ Respond(WebhookReply(ev, 200, "ok", "none"))
StripeWebhook(sig, parseOk, payload) ==
    LET ev == [payload EXCEPT !.sig = sig, !.parsed = parseOk] IN
    /\ NoResponsePending
    /\ <<sig, parseOk, payload>> \in WebhookInputs
    /\ IF sig = "missing"
       THEN /\ UNCHANGED <<users, memberships, intents, reqs, now, applications, appReqs, messages>>
            /\ lastHps' = NoEv
            /\ Respond(WebhookReply(ev, 400, "no_signature", "none"))
       ELSE IF construct_event(sig, parseOk) = "SignatureVerificationError"
       THEN /\ UNCHANGED <<users, memberships, intents, reqs, now, applications, appReqs, messages>>
            /\ lastHps' = NoEv
            /\ Respond(WebhookReply(ev, 400, "invalid_signature", "none"))
       ELSE IF construct_event(sig, parseOk) = "ValueError"
       THEN /\ UNCHANGED <<users, memberships, intents, reqs, now, applications, appReqs, messages>>
            /\ lastHps' = NoEv
            /\ Respond(WebhookReply(ev, 400, "invalid_payload", "none"))
       ELSE IF ev.type = SUCCEEDED THEN handle_payment_success(ev)
       ELSE IF ev.type = PAYMENT_FAILED THEN handle_payment_failure(ev)
       ELSE /\ UNCHANGED <<users, memberships, intents, reqs, now, applications, appReqs, messages>>
            /\ lastHps' = NoEv
            /\ Respond(WebhookReply(ev, 200, "ok", "none"))

\* confirm_payment: intent.status != 'succeeded' is refused
MutIntentAlwaysSucceeded(pid) == TRUE
intent_succeeded(pid) == intents[pid].status = "succeeded"

\* POST /memberships/confirm-payment up to its first INSERT
ConfirmPayment(u, pid, plan, ok) ==
    /\ NoResponsePending
    /\ UserExists(u)
    /\ pid \in IntentIds \cup {0}
    /\ lastHps' = NoEv
    /\ UNCHANGED <<users, memberships, intents, now, applications, appReqs, messages>>
    /\ LET g == require_candidate_role(u)
           op == "confirm_payment"
           r(code, detail) == [Reply(op, u, code, detail) EXCEPT !.plan = plan, !.sid = pid]
       IN  IF g # "ok"
           THEN /\ UNCHANGED reqs
                /\ Respond(r(GuardCode(g), g))
           ELSE IF ~ok \/ pid \notin IntentIds
           THEN \* stripe.PaymentIntent.retrieve raises a StripeError
                /\ UNCHANGED reqs
                /\ Respond([r(400, "stripe_error") EXCEPT !.provider = TRUE])
           ELSE IF ~intent_succeeded(pid)
           THEN /\ UNCHANGED reqs
                /\ Respond([r(400, "not_completed") EXCEPT !.provider = TRUE])
           ELSE IF u # intents[pid].user_id
           THEN /\ UNCHANGED reqs
                /\ Respond([r(403, "not_owner") EXCEPT !.provider = TRUE])
           ELSE /\ HasFreeReq
                /\ RowsInUse < MaxMemberships
                /\ reqs' = [reqs EXCEPT ![FreeReq] = NewReq("confirm", u, plan, pid, FALSE, "none")]
                /\ UNCHANGED resp

\* GET /memberships/get-checkout-session: no authentication dependency and no
\* except clause; a StripeError of Session.retrieve leaves the handler as an
\* unhandled exception, which the server answers with 500.
GetCheckoutSession(ok) ==
    /\ NoResponsePending
    /\ lastHps' = NoEv
    /\ UNCHANGED <<users, memberships, intents, reqs, now, applications, appReqs, messages>>
    /\ IF ~ok
       THEN Respond([Reply("get_checkout_session", NoMeta, 500, "stripe_error")
                       EXCEPT !.provider = TRUE])
       ELSE Respond([Reply("get_checkout_session", NoMeta, 200, "ok")
                       EXCEPT !.provider = TRUE])

-----------------------------------------------------------------------------
(* The rest of the system the membership flow depends on *)

\* The customer pays: the provider moves the intent to succeeded.
ProviderPay(i) ==
    /\ NoResponsePending
    /\ i \in IntentIds
    /\ intents[i].status # "succeeded"
    /\ intents' = [intents EXCEPT ![i].status = "succeeded"]
    /\ UNCHANGED <<users, memberships, reqs, resp, now, applications, appReqs, messages>>
    /\ lastHps' = NoEv

\* POST /auth/register-candidate: the user (is_active defaults to False) and a
\* pending basic membership, committed together.
RegisterCandidate(u) ==
    /\ NoResponsePending
    /\ u \in {Cand1, Cand2}
    /\ lastHps' = NoEv
    /\ UNCHANGED <<intents, reqs, now, applications, appReqs, messages>>
    /\ IF users[u].exists
       THEN /\ UNCHANGED <<users, memberships>>
            /\ Respond(Reply("register_candidate", u, 400, "email_registered"))
       ELSE /\ RowsInUse < MaxMemberships
            /\ users' = [users EXCEPT ![u] = UserRow(CANDIDATE, FALSE, FALSE)]
            /\ memberships' = Append(memberships, MembershipRow(u, "basic", PENDING, now, 0))
            /\ Respond([Reply("register_candidate", u, 201, "ok")
                          EXCEPT !.plan = "basic", !.status = PENDING])

\* POST /auth/verify-email with the code that was mailed
VerifyEmail(u) ==
    /\ NoResponsePending
    /\ UserExists(u)
    /\ ~users[u].is_active
    /\ users' = [users EXCEPT ![u].is_active = TRUE]
    /\ UNCHANGED <<memberships, intents, reqs, now, applications, appReqs, messages>>
    /\ lastHps' = NoEv
    /\ Respond(Reply("verify_email", u, 200, "ok"))

\* api/v1/admin.py: require_admin_role
MutRequireAdminNoRoleCheck(a) == get_current_active_user(a)
require_admin_role(a) ==
    IF get_current_active_user(a) # "ok" THEN get_current_active_user(a)
    ELSE IF users[a].role # ADMIN THEN "forbidden"
    ELSE "ok"

\* POST /admin/users/{id}/deactivate (UsersCrud.deactivate_user commits)
AdminDeactivateUser(a, t) ==
    /\ NoResponsePending
    /\ UserExists(a)
    /\ UNCHANGED <<memberships, intents, reqs, now, applications, appReqs, messages>>
    /\ lastHps' = NoEv
    /\ IF require_admin_role(a) # "ok"
       THEN /\ UNCHANGED users
            /\ Respond(Reply("deactivate_user", a, GuardCode(require_admin_role(a)),
                             require_admin_role(a)))
       ELSE IF ~UserExists(t)
       THEN /\ UNCHANGED users
            /\ Respond(Reply("deactivate_user", a, 404, "not_found"))
       ELSE /\ users' = [users EXCEPT ![t].is_active = FALSE]
            /\ Respond(Reply("deactivate_user", a, 200, "ok"))

\* BaseCrud.update_by_id as update_user uses it: the fields the request carries
\* are written to the row (here is_approved).
update_by_id(t, approved) == [users EXCEPT ![t].is_approved = approved]

\* PATCH /admin/users/{id} with is_approved in the body
AdminUpdateUser(a, t, approved) ==
    /\ NoResponsePending
    /\ UserExists(a)
    /\ UNCHANGED <<memberships, intents, reqs, now, applications, appReqs, messages>>
    /\ lastHps' = NoEv
    /\ IF require_admin_role(a) # "ok"
       THEN /\ UNCHANGED users
            /\ Respond(Reply("update_user", a, GuardCode(require_admin_role(a)),
                             require_admin_role(a)))
       ELSE IF ~UserExists(t)
       THEN /\ UNCHANGED users
            /\ Respond(Reply("update_user", a, 404, "not_found"))
       ELSE /\ users' = update_by_id(t, approved)
            /\ Respond(Reply("update_user", a, 200, "ok"))

\* POST /admin/teams/{id}/approve (UsersCrud.approve_team commits)
ApproveTeam(a, t) ==
    /\ NoResponsePending
    /\ UserExists(a)
    /\ UNCHANGED <<memberships, intents, reqs, now, applications, appReqs, messages>>
    /\ lastHps' = NoEv
    /\ IF require_admin_role(a) # "ok"
       THEN /\ UNCHANGED users
            /\ Respond(Reply("approve_team", a, GuardCode(require_admin_role(a)),
                             require_admin_role(a)))
       ELSE IF ~UserExists(t)
       THEN /\ UNCHANGED users
            /\ Respond(Reply("approve_team", a, 404, "not_found"))
       ELSE IF users[t].role # TEAM
       THEN /\ UNCHANGED users
            /\ Respond(Reply("approve_team", a, 400, "not_a_team"))
       ELSE /\ users' = [users EXCEPT ![t].is_approved = TRUE]
            /\ Respond(Reply("approve_team", a, 200, "ok"))

\* api/v1/vacancy.py and api/v1/candidates.py: require_team_role
vacancy_require_team_role(u) ==
    IF get_current_active_user(u) # "ok" THEN get_current_active_user(u)
    ELSE IF users[u].role # TEAM THEN "forbidden"
    ELSE IF ~users[u].is_approved THEN "forbidden"
    ELSE "ok"

\* api/v1/application.py: require_team_role, the one api/v1/authentication.py imports
require_team_role(u) ==
    IF get_current_active_user(u) # "ok" THEN get_current_active_user(u)
    ELSE IF users[u].role # TEAM THEN "forbidden"
    ELSE "ok"

\* POST /auth/upload-logo.  file: what was uploaded and whether the store takes it.
UploadLogo(u, file) ==
    /\ NoResponsePending
    /\ UserExists(u)
    /\ file \in {"ok", "no_filename", "bad_extension", "too_large", "store_error"}
    /\ UNCHANGED <<memberships, intents, reqs, now, applications, appReqs, messages>>
    /\ lastHps' = NoEv
    /\ LET g == require_team_role(u)
           op == "upload_logo"
       IN  IF g # "ok"
           THEN /\ UNCHANGED users
                /\ Respond(Reply(op, u, GuardCode(g), g))
           ELSE IF file \in {"no_filename", "bad_extension", "too_large"}
           THEN /\ UNCHANGED users
                /\ Respond(Reply(op, u, 400, file))
           ELSE IF file = "store_error"
           THEN /\ UNCHANGED users
                /\ Respond(Reply(op, u, 500, file))
           ELSE /\ users' = [users EXCEPT ![u].logo_file_path = "set"]
                /\ Respond(Reply(op, u, 200, "ok"))

\* api/v1/candidates.py: require_candidate_role
candidates_require_candidate_role(u) ==
    IF get_current_active_user(u) # "ok" THEN get_current_active_user(u)
    ELSE IF users[u].role # CANDIDATE THEN "forbidden"
    ELSE "ok"

\* BaseCrud.get_by_id on the user table: the id of the row, NoMeta when there
\* is none.
get_by_id(u) == IF UserExists(u) THEN u ELSE NoMeta

CvFiles ==
    {"ok", "no_filename", "bad_extension", "too_large", "mkdir_error", "store_error",
     "commit_error"}

\* POST /candidates/upload-cv
UploadCv(u, file) ==
    /\ NoResponsePending
    /\ UserExists(u)
    /\ file \in CvFiles
    /\ UNCHANGED <<memberships, intents, reqs, now, applications, appReqs, messages>>
    /\ lastHps' = NoEv
    /\ LET g == candidates_require_candidate_role(u)
           op == "upload_cv"
       IN  IF g # "ok"
           THEN /\ UNCHANGED users
                /\ Respond(Reply(op, u, GuardCode(g), g))
           ELSE IF get_active_membership_by_user_id(u) = {}
           THEN /\ UNCHANGED users
                /\ Respond(Reply(op, u, 403, "membership_required"))
           ELSE IF file \in {"no_filename", "bad_extension", "too_large"}
           THEN /\ UNCHANGED users
                /\ Respond(Reply(op, u, 400, file))
           ELSE IF file = "mkdir_error"
           THEN /\ UNCHANGED users
                /\ Respond(Reply(op, u, 500, file))
           ELSE IF get_by_id(u) = NoMeta
           THEN /\ UNCHANGED users
                /\ Respond(Reply(op, u, 404, "not_found"))
           ELSE IF file \in {"store_error", "commit_error"}
           THEN /\ UNCHANGED users
                /\ Respond(Reply(op, u, 500, file))
           ELSE /\ users' = [users EXCEPT ![get_by_id(u)].cv_file_path = "set"]
                /\ Respond(Reply(op, u, 200, "ok"))

\* BaseCrud.delete_by_id on the user table: the row is gone afterwards.
delete_by_id(t) == [users EXCEPT ![t] = NoUser]

\* DELETE /admin/users/{id}
DeleteUser(a, t) ==
    /\ NoResponsePending
    /\ UserExists(a)
    /\ t \in UserIds
    /\ UNCHANGED <<memberships, intents, reqs, now, applications, appReqs, messages>>
    /\ lastHps' = NoEv
    /\ LET g == require_admin_role(a)
           op == [Reply("delete_user", a, 0, "none") EXCEPT !.target = t]
       IN  IF g # "ok"
           THEN /\ UNCHANGED users
                /\ Respond([op EXCEPT !.code = GuardCode(g), !.detail = g])
           ELSE IF get_by_id(t) = NoMeta
           THEN /\ UNCHANGED users
                /\ Respond([op EXCEPT !.code = 404, !.detail = "not_found"])
           ELSE IF users[t].role = ADMIN
           THEN /\ UNCHANGED users
                /\ Respond([op EXCEPT !.code = 403, !.detail = "cannot_delete_admin"])
           ELSE /\ users' = delete_by_id(t)
                /\ Respond([op EXCEPT !.code = 200, !.detail = "ok"])

StatusSet == {ACTIVE, EXPIRED, CANCELLED, PENDING}

\* BaseCrud.get_by_id on the membership table: the id of the row, 0 when there
\* is none.
membership_get_by_id(id) == IF id \in DOMAIN memberships THEN id ELSE 0

\* MembershipCrud.update_membership_status: writes the requested status to the
\* row and commits; returns None when there is no such row.
update_membership_status(id, status) ==
    /\ NoResponsePending
    /\ status \in StatusSet
    /\ UNCHANGED <<users, intents, reqs, now, applications, appReqs, messages>>
    /\ lastHps' = NoEv
    /\ IF membership_get_by_id(id) = 0
       THEN /\ UNCHANGED memberships
            /\ Respond([Reply("update_membership_status", NoMeta, 0, "returned_none")
                          EXCEPT !.sid = id, !.status = status])
       ELSE /\ memberships' = [memberships EXCEPT ![membership_get_by_id(id)].status = status]
            /\ Respond([Reply("update_membership_status", memberships[id].user_id, 0,
                               "returned_row")
                          EXCEPT !.sid = id, !.cur = memberships[id].status,
                                 !.status = status, !.plan = memberships[id].plan_type])

\* the sequences that list every element of S once
Orderings(S) ==
    {f \in [1..Cardinality(S) -> S] : \A i, j \in 1..Cardinality(S) : f[i] = f[j] => i = j}

\* MembershipCrud.get_memberships_by_user_id: the rows of the user; the query
\* has no ORDER BY, so the database returns them in an order of its choosing.
get_memberships_by_user_id(u) ==
    Orderings({i \in DOMAIN memberships : memberships[i].user_id = u})

\* GET /memberships/history
GetMembershipHistory(u) ==
    /\ NoResponsePending
    /\ UserExists(u)
    /\ lastHps' = NoEv
    /\ UNCHANGED <<users, memberships, intents, reqs, now, applications, appReqs, messages>>
    /\ LET g == require_candidate_role(u)
           op == "history"
       IN  IF g # "ok"
           THEN Respond(Reply(op, u, GuardCode(g), g))
           ELSE \E rows \in get_memberships_by_user_id(u) :
                    Respond([Reply(op, u, 200, "ok") EXCEPT !.rows = rows])

\* The server sends the pending response to the client.
SendResponse ==
    /\ resp # R0
    /\ resp' = R0
    /\ UNCHANGED <<users, memberships, intents, reqs, lastHps, now, applications, appReqs, messages>>

\* A day passes.
Tick ==
    /\ NoResponsePending
    /\ now < MaxDays
    /\ now' = now + 1
    /\ UNCHANGED <<users, memberships, intents, reqs, resp>>
    /\ UNCHANGED <<applications, appReqs, messages>>
    /\ lastHps' = NoEv

-----------------------------------------------------------------------------
(* Applications: src/app/api/v1/application.py *)

\* The vacancy table belongs to the vacancy endpoints: its rows are fixed here.
Vacancy1 == "vacancy1"
Vacancy2 == "vacancy2"
VacancyMissing == "vacancy3"
Vacancies == {Vacancy1, Vacancy2}

\* A row of the application table; the table has no unique constraint on
\* (candidate_id, vacancy_id).
ApplicationRow(u, v) == [exists |-> TRUE, candidate_id |-> u, vacancy_id |-> v]

IdleAppReq == [pc |-> "idle", user_id |-> NoMeta, vacancy_id |-> NoMeta]

AppReqIds == 1..MaxReqs

OpenAppReqs == {r \in AppReqIds : appReqs[r].pc # "idle"}

application_require_candidate_role(u) ==
    IF get_current_active_user(u) # "ok" THEN get_current_active_user(u)
    ELSE IF users[u].role # CANDIDATE THEN "forbidden"
    ELSE "ok"

\* BaseCrud.get_by_id on the vacancy table.
vacancy_get_by_id(v) == IF v \in Vacancies THEN v ELSE NoMeta

\* BaseCrud.get_by_id on the application table.
application_get_by_id(id) ==
    IF id \in DOMAIN applications /\ applications[id].exists THEN id ELSE 0

\* BaseCrud.delete_by_id on the application table.
application_delete_by_id(id) == [applications EXCEPT ![id].exists = FALSE]

\* The committed rows of the pair; the endpoint takes .first() of them.
check_existing_application(u, v) ==
    {i \in DOMAIN applications : /\ applications[i].exists
                                 /\ applications[i].candidate_id = u
                                 /\ applications[i].vacancy_id = v}

\* POST /applications up to the await of application_crud.create: the role
\* guard, the vacancy lookup and the check for an existing application.
ApplyToVacancy(r, u, v) ==
    /\ NoResponsePending
    /\ appReqs[r].pc = "idle"
    /\ UserExists(u)
    /\ Len(applications) + Cardinality(OpenAppReqs) < MaxApplications
    /\ lastHps' = NoEv
    /\ UNCHANGED <<users, memberships, intents, reqs, now, applications, messages>>
    /\ LET g == application_require_candidate_role(u)
           op == "apply"
       IN  IF g # "ok"
           THEN /\ UNCHANGED appReqs
                /\ Respond(Reply(op, u, GuardCode(g), g))
           ELSE IF vacancy_get_by_id(v) = NoMeta
           THEN /\ UNCHANGED appReqs
                /\ Respond(Reply(op, u, 404, "vacancy_not_found"))
           ELSE IF check_existing_application(u, v) # {}
           THEN /\ UNCHANGED appReqs
                /\ Respond([Reply(op, u, 400, "already_applied") EXCEPT !.dup = TRUE])
           ELSE /\ appReqs' = [appReqs EXCEPT ![r] =
                                  [pc |-> "create", user_id |-> u, vacancy_id |-> v]]
                /\ UNCHANGED resp

\* The rest of POST /applications: create and commit_session on the request's
\* own session, then the 201 answer.  dup records whether the pair had a
\* committed row when this one was committed.
ApplyCreate(r) ==
    /\ NoResponsePending
    /\ appReqs[r].pc = "create"
    /\ lastHps' = NoEv
    /\ UNCHANGED <<users, memberships, intents, reqs, now, messages>>
    /\ LET u == appReqs[r].user_id
           v == appReqs[r].vacancy_id
       IN  /\ applications' = Append(applications, ApplicationRow(u, v))
           /\ appReqs' = [appReqs EXCEPT ![r] = IdleAppReq]
           /\ Respond([Reply("apply", u, 201, "ok") EXCEPT
                          !.inserted = TRUE,
                          !.dup = (check_existing_application(u, v) # {})])

\* DELETE /applications/{application_id}
WithdrawApplication(u, id) ==
    /\ NoResponsePending
    /\ UserExists(u)
    /\ lastHps' = NoEv
    /\ UNCHANGED <<users, memberships, intents, reqs, now, appReqs, messages>>
    /\ LET g == application_require_candidate_role(u)
           op == "withdraw"
       IN  IF g # "ok"
           THEN /\ UNCHANGED applications
                /\ Respond(Reply(op, u, GuardCode(g), g))
           ELSE IF application_get_by_id(id) = 0
           THEN /\ UNCHANGED applications
                /\ Respond(Reply(op, u, 404, "application_not_found"))
           ELSE IF applications[id].candidate_id # u
           THEN /\ UNCHANGED applications
                /\ Respond(Reply(op, u, 403, "not_own_application"))
           ELSE /\ applications' = application_delete_by_id(id)
                /\ Respond(Reply(op, u, 204, "ok"))

-----------------------------------------------------------------------------
(* Messages: src/app/api/v1/messaging.py *)

MessageRow(s, t, parent) ==
    [sender_id |-> s, receiver_id |-> t, parent_message_id |-> parent]

\* BaseCrud.get_by_id on the message table.
message_get_by_id(id) == IF id \in DOMAIN messages THEN id ELSE 0

\* POST /messages
SendMessage(u, receiver_id) ==
    /\ NoResponsePending
    /\ UserExists(u)
    /\ Len(messages) < MaxMessages
    /\ lastHps' = NoEv
    /\ UNCHANGED <<users, memberships, intents, reqs, now, applications, appReqs>>
    /\ LET g == get_current_active_user(u)
           op == "send_message"
       IN  IF g # "ok"
           THEN /\ UNCHANGED messages
                /\ Respond(Reply(op, u, GuardCode(g), g))
           ELSE IF get_by_id(receiver_id) = NoMeta
           THEN /\ UNCHANGED messages
                /\ Respond([Reply(op, u, 404, "receiver_not_found") EXCEPT
                               !.target = receiver_id])
           ELSE IF receiver_id = u
           THEN /\ UNCHANGED messages
                /\ Respond([Reply(op, u, 400, "self_message") EXCEPT
                               !.target = receiver_id])
           ELSE /\ messages' = Append(messages, MessageRow(u, receiver_id, 0))
                /\ Respond([Reply(op, u, 201, "ok") EXCEPT
                               !.target = receiver_id, !.inserted = TRUE])

MutReplyToOriginalSender(original, u) == original.sender_id

\* The receiver of a reply: the other participant of the original message.
reply_receiver(original, u) ==
    IF original.sender_id = u THEN original.receiver_id ELSE original.sender_id

\* POST /messages/{message_id}/reply; the receiver_id and parent_message_id
\* of the request body are overwritten.
ReplyToMessage(u, message_id, receiver_id) ==
    /\ NoResponsePending
    /\ UserExists(u)
    /\ Len(messages) < MaxMessages
    /\ lastHps' = NoEv
    /\ UNCHANGED <<users, memberships, intents, reqs, now, applications, appReqs>>
    /\ LET g == get_current_active_user(u)
           op == "reply_to_message"
       IN  IF g # "ok"
           THEN /\ UNCHANGED messages
                /\ Respond(Reply(op, u, GuardCode(g), g))
           ELSE IF message_get_by_id(message_id) = 0
           THEN /\ UNCHANGED messages
                /\ Respond(Reply(op, u, 404, "message_not_found"))
           ELSE IF /\ messages[message_id].sender_id # u
                   /\ messages[message_id].receiver_id # u
           THEN /\ UNCHANGED messages
                /\ Respond(Reply(op, u, 403, "not_participant"))
           ELSE /\ messages' = Append(messages,
                                  MessageRow(u, reply_receiver(messages[message_id], u),
                                             message_id))
                /\ Respond([Reply(op, u, 200, "ok") EXCEPT
                               !.target = reply_receiver(messages[message_id], u),
                               !.inserted = TRUE])

NoApplicationsNoMessages ==
    /\ applications = <<>>
    /\ appReqs = [r \in AppReqIds |-> IdleAppReq]
    /\ messages = <<>>

-----------------------------------------------------------------------------
(* Specification *)

Init ==
    /\ users = [u \in UserIds |->
                  CASE u = Cand1 -> UserRow(CANDIDATE, TRUE, FALSE)
                    [] u = Cand2 -> NoUser
                    [] u = Team1 -> UserRow(TEAM, TRUE, TRUE)
                    [] u = Admin1 -> UserRow(ADMIN, TRUE, FALSE)]
    /\ memberships = <<MembershipRow(Cand1, "basic", PENDING, 0, 0)>>
    /\ intents = <<>>
    /\ reqs = [r \in ReqIds |-> IdleReq]
    /\ resp = R0
    /\ lastHps = NoEv
    /\ now = 0
    /\ NoApplicationsNoMessages

Next ==
    \/ \E u \in UserIds, plan \in PlanSet, ok \in BOOLEAN : CreateCheckoutSession(u, plan, ok)
    \/ \E u \in UserIds, plan \in PlanSet, ok \in BOOLEAN : CreatePaymentIntent(u, plan, ok)
    \/ \E u \in UserIds, pid \in 0..MaxIntents, plan \in PlanSet, ok \in BOOLEAN :
          ConfirmPayment(u, pid, plan, ok)
    \/ \E u \in UserIds : GetMyMembership(u)
    \/ \E u \in UserIds, plan \in PlanSet, ok \in BOOLEAN : UpgradeMembership(u, plan, ok)
    \/ \E in \in WebhookInputs : StripeWebhook(in[1], in[2], in[3])
    \/ \E r \in ReqIds : HpsCreate(r)
    \/ \E r \in ReqIds : HpsActivate(r)
    \/ \E r \in ReqIds : HpsCommit(r)
    \/ \E r \in ReqIds : ConfirmCreate(r)
    \/ \E r \in ReqIds : ConfirmActivate(r)
    \/ \E r \in ReqIds : ConfirmCommit(r)
    \/ \E r \in ReqIds : ReqFail(r)
    \/ \E i \in 1..MaxIntents : ProviderPay(i)
    \/ \E u \in UserIds : RegisterCandidate(u)
    \/ \E u \in UserIds : VerifyEmail(u)
    \/ \E t \in {Cand1, Team1} : AdminDeactivateUser(Admin1, t)
    \/ \E approved \in BOOLEAN : AdminUpdateUser(Admin1, Team1, approved)
    \/ \E t \in {Cand1, Team1} : ApproveTeam(Admin1, t)
    \/ \E u \in UserIds, file \in {"ok", "no_filename", "bad_extension", "too_large", "store_error"} :
          UploadLogo(u, file)
    \/ Tick
    \/ \E u \in UserIds, file \in CvFiles : UploadCv(u, file)
    \/ \E a \in UserIds, t \in UserIds : DeleteUser(a, t)
    \/ \E ok \in BOOLEAN : GetCheckoutSession(ok)
    \/ \E id \in 1..MaxMemberships, status \in StatusSet : update_membership_status(id, status)
    \/ \E u \in UserIds : GetMembershipHistory(u)
    \/ \E r \in AppReqIds, u \in UserIds, v \in Vacancies \cup {VacancyMissing} :
          ApplyToVacancy(r, u, v)
    \/ \E r \in AppReqIds : ApplyCreate(r)
    \/ \E u \in UserIds, id \in 1..MaxApplications : WithdrawApplication(u, id)
    \/ \E u \in UserIds, t \in UserIds : SendMessage(u, t)
    \/ \E u \in UserIds, id \in 1..MaxMessages, t \in UserIds : ReplyToMessage(u, id, t)
    \/ SendResponse

Spec == Init /\ [][Next]_vars

\* Reconciliation: the candidate has opened one premium payment intent; the
\* payment is reconciled by the webhook and by confirm-payment, one request at
\* a time.
InitRecon ==
    /\ users = [u \in UserIds |->
                  CASE u = Cand1 -> UserRow(CANDIDATE, TRUE, FALSE)
                    [] u = Cand2 -> NoUser
                    [] u = Team1 -> UserRow(TEAM, TRUE, TRUE)
                    [] u = Admin1 -> UserRow(ADMIN, TRUE, FALSE)]
    /\ memberships = <<MembershipRow(Cand1, "basic", PENDING, 0, 0)>>
    /\ intents = <<Intent(Cand1, "premium", IntCents("premium"), FALSE)>>
    /\ reqs = [r \in ReqIds |-> IdleReq]
    /\ resp = R0
    /\ lastHps = NoEv
    /\ now = 0
    /\ NoApplicationsNoMessages

NextRecon ==
    \/ \E pid \in 0..MaxIntents, plan \in {"premium", "professional"}, ok \in BOOLEAN :
          NoRequestOpen /\ ConfirmPayment(Cand1, pid, plan, ok)
    \/ \E in \in WebhookInputs : NoRequestOpen /\ StripeWebhook(in[1], in[2], in[3])
    \/ \E r \in ReqIds : HpsCreate(r)
    \/ \E r \in ReqIds : HpsActivate(r)
    \/ \E r \in ReqIds : HpsCommit(r)
    \/ \E r \in ReqIds : ConfirmCreate(r)
    \/ \E r \in ReqIds : ConfirmActivate(r)
    \/ \E r \in ReqIds : ConfirmCommit(r)
    \/ \E r \in ReqIds : ReqFail(r)
    \/ \E i \in 1..MaxIntents : ProviderPay(i)
    \/ AdminDeactivateUser(Admin1, Cand1)
    \/ SendResponse

SpecRecon == InitRecon /\ [][NextRecon]_vars

\* Race: webhook deliveries and confirm-payment calls for the premium intent
\* run concurrently, each on its own database session.
NextRace ==
    \/ \E ok \in BOOLEAN : ConfirmPayment(Cand1, 1, "premium", ok)
    \/ \E ev \in ProviderEvents : StripeWebhook("valid", TRUE, ev)
    \/ \E r \in ReqIds : HpsCreate(r)
    \/ \E r \in ReqIds : HpsActivate(r)
    \/ \E r \in ReqIds : HpsCommit(r)
    \/ \E r \in ReqIds : ConfirmCreate(r)
    \/ \E r \in ReqIds : ConfirmActivate(r)
    \/ \E r \in ReqIds : ConfirmCommit(r)
    \/ \E i \in 1..MaxIntents : ProviderPay(i)
    \/ SendResponse

SpecRace == InitRecon /\ [][NextRace]_vars

\* Confirmation: two verified candidates have each opened a payment intent;
\* each confirms intents of their own and of the other, paid or not, and the
\* provider delivers events; one reconciliation request at a time.
InitConfirm ==
    /\ users = [u \in UserIds |->
                  CASE u = Cand1 -> UserRow(CANDIDATE, TRUE, FALSE)
                    [] u = Cand2 -> UserRow(CANDIDATE, TRUE, FALSE)
                    [] u = Team1 -> UserRow(TEAM, TRUE, TRUE)
                    [] u = Admin1 -> UserRow(ADMIN, TRUE, FALSE)]
    /\ memberships = <<MembershipRow(Cand1, "basic", PENDING, 0, 0),
                        MembershipRow(Cand2, "basic", PENDING, 0, 0)>>
    /\ intents = <<Intent(Cand1, "premium", IntCents("premium"), FALSE),
                    Intent(Cand2, "basic", IntCents("basic"), FALSE)>>
    /\ reqs = [r \in ReqIds |-> IdleReq]
    /\ resp = R0
    /\ lastHps = NoEv
    /\ now = 0
    /\ NoApplicationsNoMessages

NextConfirm ==
    \/ \E u \in {Cand1, Cand2}, pid \in 0..MaxIntents, ok \in BOOLEAN :
          /\ NoRequestOpen
          /\ ConfirmPayment(u, pid, IF pid \in IntentIds THEN intents[pid].plan_type
                                    ELSE "basic", ok)
    \/ \E in \in WebhookInputs : NoRequestOpen /\ StripeWebhook(in[1], in[2], in[3])
    \/ \E r \in ReqIds : HpsCreate(r)
    \/ \E r \in ReqIds : HpsActivate(r)
    \/ \E r \in ReqIds : HpsCommit(r)
    \/ \E r \in ReqIds : ConfirmCreate(r)
    \/ \E r \in ReqIds : ConfirmActivate(r)
    \/ \E r \in ReqIds : ConfirmCommit(r)
    \/ \E i \in 1..MaxIntents : ProviderPay(i)
    \/ SendResponse

SpecConfirm == InitConfirm /\ [][NextConfirm]_vars

\* Purchase: candidates, team users and admins call the purchase endpoints; the
\* candidate's payment is reconciled by confirm-payment or by the webhook, one
\* reconciliation request at a time.
Callers == {Cand1, Team1, Admin1}

NextPurchase ==
    \/ \E u \in Callers, plan \in PlanSet, ok \in BOOLEAN : CreateCheckoutSession(u, plan, ok)
    \/ \E u \in Callers, plan \in PlanSet : \E ok \in {FALSE, plan = "basic"} :
          CreatePaymentIntent(u, plan, ok)
    \/ \E u \in Callers, pid \in 0..MaxIntents, ok \in BOOLEAN :
          /\ NoRequestOpen
          /\ ConfirmPayment(u, pid, IF pid \in IntentIds /\ intents[pid].plan_type \in PlanSet
                                    THEN intents[pid].plan_type ELSE "basic", ok)
    \/ \E ev \in ProviderEvents : NoRequestOpen /\ StripeWebhook("valid", TRUE, ev)
    \/ \E r \in ReqIds : HpsCreate(r)
    \/ \E r \in ReqIds : HpsActivate(r)
    \/ \E r \in ReqIds : HpsCommit(r)
    \/ \E r \in ReqIds : ConfirmCreate(r)
    \/ \E r \in ReqIds : ConfirmActivate(r)
    \/ \E r \in ReqIds : ConfirmCommit(r)
    \/ \E u \in Callers : GetMyMembership(u)
    \/ \E u \in Callers, plan \in PlanSet : \E ok \in {FALSE, plan = "premium"} :
          UpgradeMembership(u, plan, ok)
    \/ \E i \in 1..MaxIntents : ProviderPay(i)
    \/ AdminDeactivateUser(Admin1, Team1)
    \/ RegisterCandidate(Cand2)
    \/ \E ok \in BOOLEAN : GetCheckoutSession(ok)
    \/ SendResponse

SpecPurchase == Init /\ [][NextPurchase]_vars

\* Upgrade: the candidate holds no membership, or bought one of the plans on
\* day 0; days pass and the candidate asks for upgrades.
InitUpgrade ==
    /\ users = [u \in UserIds |->
                  CASE u = Cand1 -> UserRow(CANDIDATE, TRUE, FALSE)
                    [] u = Cand2 -> NoUser
                    [] u = Team1 -> UserRow(TEAM, TRUE, TRUE)
                    [] u = Admin1 -> UserRow(ADMIN, TRUE, FALSE)]
    /\ \E p \in PlanSet \cup {NoMeta} :
          IF p = NoMeta
          THEN /\ memberships = <<MembershipRow(Cand1, "basic", PENDING, 0, 0)>>
               /\ intents = <<>>
          ELSE /\ memberships = <<MembershipRow(Cand1, "basic", PENDING, 0, 0),
                                   MembershipRow(Cand1, p, ACTIVE, 0, 1)>>
               /\ intents = <<[Intent(Cand1, p, IntCents(p), FALSE)
                                 EXCEPT !.status = "succeeded"]>>
    /\ reqs = [r \in ReqIds |-> IdleReq]
    /\ resp = R0
    /\ lastHps = NoEv
    /\ now = 0
    /\ NoApplicationsNoMessages

NextUpgrade ==
    \/ \E plan \in PlanSet, ok \in BOOLEAN : UpgradeMembership(Cand1, plan, ok)
    \/ GetMyMembership(Cand1)
    \/ Tick
    \/ SendResponse

SpecUpgrade == InitUpgrade /\ [][NextUpgrade]_vars

\* Team operations: the team user logged in while approved; the admin changes
\* the approval and the activation afterwards.
NextTeam ==
    \/ \E u \in Callers, file \in {"ok", "no_filename", "bad_extension", "too_large", "store_error"} :
          UploadLogo(u, file)
    \/ \E approved \in BOOLEAN : AdminUpdateUser(Admin1, Team1, approved)
    \/ \E t \in {Cand1, Team1} : ApproveTeam(Admin1, t)
    \/ \E t \in {Cand1, Team1} : AdminDeactivateUser(Admin1, t)
    \/ SendResponse

SpecTeam == Init /\ [][NextTeam]_vars

\* CV upload: the candidate holds an active membership or none; candidates,
\* team users and admins call upload-cv, and the admin deactivates accounts.
NextCv ==
    \/ \E u \in Callers, file \in CvFiles : UploadCv(u, file)
    \/ \E t \in {Cand1, Team1} : AdminDeactivateUser(Admin1, t)
    \/ SendResponse

SpecCv == InitUpgrade /\ [][NextCv]_vars

\* Administration: the admin deletes, deactivates, updates and approves users;
\* other callers try to delete, and deleted candidates register again.
NextAdmin ==
    \/ \E a \in Callers, t \in UserIds : DeleteUser(a, t)
    \/ \E t \in {Cand1, Admin1} : AdminDeactivateUser(Admin1, t)
    \/ \E approved \in BOOLEAN : AdminUpdateUser(Admin1, Team1, approved)
    \/ ApproveTeam(Admin1, Team1)
    \/ \E u \in {Cand1, Cand2} : RegisterCandidate(u)
    \/ SendResponse

SpecAdmin == Init /\ [][NextAdmin]_vars

\* Membership records: the status of membership rows is changed, a second
\* candidate registers and verifies, and candidates read their history.
NextHistory ==
    \/ \E id \in 1..MaxMemberships, status \in StatusSet : update_membership_status(id, status)
    \/ \E u \in UserIds : GetMembershipHistory(u)
    \/ RegisterCandidate(Cand2)
    \/ VerifyEmail(Cand2)
    \/ SendResponse

SpecHistory == InitUpgrade /\ [][NextHistory]_vars

\* Replay: the provider delivers the success event of the premium intent more
\* than once, one delivery at a time, and memberships expire or are cancelled
\* between deliveries.
NextReplay ==
    \/ \E ev \in ProviderEvents : NoRequestOpen /\ StripeWebhook("valid", TRUE, ev)
    \/ \E r \in ReqIds : HpsCreate(r)
    \/ \E r \in ReqIds : HpsActivate(r)
    \/ \E r \in ReqIds : HpsCommit(r)
    \/ \E i \in 1..MaxIntents : ProviderPay(i)
    \/ \E id \in 1..MaxMemberships, status \in {EXPIRED, CANCELLED} :
          update_membership_status(id, status)
    \/ SendResponse

SpecReplay == InitRecon /\ [][NextReplay]_vars

\* Applications: two candidates and a team apply concurrently and withdraw.
NextApply ==
    \/ \E r \in AppReqIds, u \in {Cand1, Cand2, Team1},
          v \in {Vacancy1, VacancyMissing} : ApplyToVacancy(r, u, v)
    \/ \E r \in AppReqIds : ApplyCreate(r)
    \/ \E u \in {Cand1, Cand2}, id \in 1..MaxApplications : WithdrawApplication(u, id)
    \/ AdminDeactivateUser(Admin1, Cand2)
    \/ SendResponse

SpecApply == InitConfirm /\ [][NextApply]_vars

\* Messages: the users send messages and reply to them.
NextMessages ==
    \/ \E u \in {Cand1, Team1, Admin1}, t \in UserIds : SendMessage(u, t)
    \/ \E u \in {Cand1, Team1, Admin1}, id \in 1..MaxMessages, t \in UserIds :
          ReplyToMessage(u, id, t)
    \/ AdminDeactivateUser(Admin1, Team1)
    \/ SendResponse

SpecMessages == Init /\ [][NextMessages]_vars

-----------------------------------------------------------------------------
(* Properties of reconciliation, checked under SpecRecon *)

\* C1: in every reachable database state each user has at most one membership
\* row whose status is active.
SingleActiveMembership == \A u \in UserIds : ActiveCount(u) <= 1

\* C2: when handle_payment_success runs a second time, in sequence, with the same
\* payment_intent.succeeded event, the webhook answers success, the run changes
\* no membership or user row, and the user has exactly one active membership.
SecondRunLeavesOneActive ==
    (resp.op = "webhook" /\ resp.handler = "success" /\ resp.dup)
        => /\ resp.code = 200
           /\ ~resp.changed
           /\ ActiveCount(resp.caller) = 1

\* C3: the insert of the active membership and the setting of is_active are one
\* atomic unit: at no moment has an execution of handle_payment_success or
\* confirm_payment committed its row without having activated the user, or
\* activated the user without having committed its row, whether it is still
\* running, has returned, or has failed after the insert.
AtomicActivation ==
    /\ \A r \in ReqIds : reqs[r].rowCommitted = reqs[r].userActivated
    /\ resp.op \in {"webhook", "confirm_payment"}
          => resp.rowCommitted = resp.userActivated

\* a reconciliation that failed after its insert: the row was rolled back and the
\* user was not activated
AtomicActivationWitness ==
    /\ resp.op \in {"webhook", "confirm_payment"}
    /\ resp.detail = "handler_error"
    /\ resp.inserted
    /\ ~resp.rowCommitted /\ ~resp.userActivated

\* C4: a webhook request whose stripe-signature header is missing, whose
\* signature does not verify, or whose payload cannot be parsed is answered
\* with 400, reaches neither handle_payment_success nor handle_payment_failure,
\* and changes no membership or user row.
UnverifiedWebhookRejected ==
    /\ (resp.op = "webhook" /\ (resp.sig # "valid" \/ ~resp.parsed))
          => (resp.code = 400 /\ resp.handler = "none" /\ ~resp.changed)
    /\ \A r \in ReqIds : reqs[r].kind = "webhook" => reqs[r].sig = "valid"

UnverifiedWebhookRejectedWitness ==
    /\ resp.op = "webhook"
    /\ resp.sig = "invalid"
    /\ resp.parsed
    /\ resp.sid \in IntentIds
    /\ resp.code = 400

-----------------------------------------------------------------------------
(* Properties of the purchase endpoints, checked under SpecPurchase *)

PurchaseOps == {"create_checkout_session", "create_payment_intent", "confirm_payment", "upgrade"}

\* C5 (its first step): create-checkout-session for plan basic, called by an
\* active candidate with no active membership while the provider is available,
\* returns a session id.
CheckoutBasicReturnsSession ==
    (/\ resp.op = "create_checkout_session"
     /\ resp.plan = "basic"
     /\ users[resp.caller].role = CANDIDATE
     /\ resp.callerActive
     /\ ActiveCount(resp.caller) = 0
     /\ resp.detail # "stripe_error")
        => (resp.code \in {200, 201} /\ resp.sid # 0)

\* C6 as stated: a caller whose role is not candidate gets 403 from
\* create-checkout-session, create-payment-intent, confirm-payment and upgrade,
\* with no provider call and no membership or user row changed.
NonCandidateGets403 ==
    (resp.op \in PurchaseOps /\ users[resp.caller].role # CANDIDATE)
        => (resp.code = 403 /\ ~resp.provider /\ ~resp.changed)

\* C6 amended: a caller whose role is not candidate is rejected by the four
\* endpoints, with 403 when the caller's is_active is true and with 400 when it
\* is false; no provider call is made, no membership or user row changes, no
\* reconciliation starts and no payment intent is opened for such a caller.
NonCandidateRejected ==
    /\ (resp.op \in PurchaseOps /\ users[resp.caller].role # CANDIDATE)
          => /\ resp.code = (IF resp.callerActive THEN 403 ELSE 400)
             /\ ~resp.provider
             /\ ~resp.changed
             /\ resp.sid = 0 \/ resp.op = "confirm_payment"
    /\ \A r \in ReqIds :
          reqs[r].kind = "confirm" => users[reqs[r].user_id].role = CANDIDATE
    /\ \A i \in IntentIds :
          intents[i].user_id \in UserIds => users[intents[i].user_id].role = CANDIDATE

NonCandidateRejectedWitness ==
    /\ resp.op = "confirm_payment"
    /\ users[resp.caller].role = TEAM
    /\ ~resp.callerActive
    /\ resp.code = 400

\* C9: create-checkout-session and create-payment-intent called by a candidate
\* who has an active membership fail with 400, call the provider not at all and
\* change nothing in the database.
ActiveMemberCannotBuy ==
    (/\ resp.op \in {"create_checkout_session", "create_payment_intent"}
     /\ users[resp.caller].role = CANDIDATE
     /\ ActiveCount(resp.caller) >= 1)
        => (resp.code = 400 /\ ~resp.provider /\ ~resp.changed /\ resp.sid = 0)

ActiveMemberCannotBuyWitness ==
    /\ resp.op = "create_payment_intent"
    /\ users[resp.caller].role = CANDIDATE
    /\ ActiveCount(resp.caller) = 1
    /\ resp.detail = "has_active"
    /\ resp.code = 400

-----------------------------------------------------------------------------
(* Properties of upgrade, checked under SpecUpgrade *)

\* rank order basic < premium < professional
Rank(p) == CASE p = "basic" -> 1 [] p = "premium" -> 2 [] p = "professional" -> 3

\* C7: upgrade fails, with no payment intent requested, when the caller has no
\* active membership and when the requested plan's rank is less than or equal
\* to the current plan's rank; it requests a payment intent only for a strictly
\* higher plan.
UpgradeOnlyToHigherPlan ==
    (resp.op = "upgrade" /\ resp.detail \notin {"inactive", "forbidden"})
        => /\ ActiveCount(resp.caller) = 0
                 => (resp.code = 400 /\ ~resp.provider /\ resp.sid = 0)
           /\ (resp.cur \in PlanSet /\ Rank(resp.plan) <= Rank(resp.cur))
                 => (resp.code = 400 /\ ~resp.provider /\ resp.sid = 0)
           /\ resp.provider
                 => (resp.cur \in PlanSet /\ Rank(resp.plan) > Rank(resp.cur))

UpgradeOnlyToHigherPlanWitness ==
    /\ resp.op = "upgrade"
    /\ resp.cur = "premium"
    /\ resp.plan = "premium"
    /\ resp.detail = "not_upgrade"
    /\ resp.code = 400

\* C8: the amount upgrade asks the provider for, in cents, is
\* (new_price/30 - current_price/30) * days_remaining rounded to the nearest cent.
UpgradeAmountRounded ==
    (resp.op = "upgrade" /\ resp.provider)
        => resp.amount = RoundedCents(MEMBERSHIP_PRICES(resp.cur),
                                      MEMBERSHIP_PRICES(resp.plan), resp.days)

-----------------------------------------------------------------------------
(* Properties of the team guard, checked under SpecTeam *)

\* C10: a team-only operation (here logo upload) is permitted only when the
\* caller's role is team and is_approved is true; a team user with is_approved
\* false is rejected with 403.
TeamOnlyNeedsApproval ==
    resp.op = "upload_logo"
        => /\ resp.code = 200 => (users[resp.caller].role = TEAM /\ resp.callerApproved)
           /\ (users[resp.caller].role = TEAM /\ resp.callerActive /\ ~resp.callerApproved)
                 => resp.code = 403


-----------------------------------------------------------------------------
(* Properties of upload-cv, checked under SpecCv *)

\* C11 as stated: a caller who is not a candidate, or has no active membership,
\* is answered 403 and cv_file_path stays as it was.
CvUploadOtherwise403 ==
    (resp.op = "upload_cv"
       /\ (users[resp.caller].role # CANDIDATE \/ ActiveRows(resp.caller) = {}))
        => (resp.code = 403 /\ ~resp.changed)

\* C11: upload-cv succeeds and sets cv_file_path only for a caller whose role
\* is candidate and who has an active membership at the time of the request;
\* any other caller is answered 403, or 400 when the account is inactive, and
\* no user row changes.
CvUploadRequiresActiveMembership ==
    resp.op = "upload_cv"
        => /\ (resp.code = 200 \/ resp.changed)
                => /\ users[resp.caller].role = CANDIDATE
                   /\ ActiveRows(resp.caller) # {}
                   /\ resp.code = 200
                   /\ users[resp.caller].cv_file_path = "set"
           /\ (users[resp.caller].role # CANDIDATE \/ ActiveRows(resp.caller) = {})
                => /\ resp.code = (IF resp.callerActive THEN 403 ELSE 400)
                   /\ ~resp.changed

CvUploadRequiresActiveMembershipWitness ==
    /\ resp.op = "upload_cv"
    /\ resp.caller = Cand1
    /\ resp.code = 200
    /\ resp.changed
    /\ users[Cand1].cv_file_path = "set"

-----------------------------------------------------------------------------
(* Properties of user deletion, checked under SpecAdmin *)

\* C12 as stated: delete_user on an admin target is answered 403 and the user
\* table stays as it was.
AdminTargetGets403 ==
    (resp.op = "delete_user" /\ users[resp.target].role = ADMIN)
        => (resp.code = 403 /\ ~resp.changed)

\* C12: no admin user is ever deleted. delete_user on an admin target changes
\* no user row and is answered 403, or 400 when the caller's account is
\* inactive; a delete_user call changes the user table only when the caller is
\* an active admin and the target is not an admin.
AdminNeverDeleted ==
    /\ users[Admin1].exists /\ users[Admin1].role = ADMIN
    /\ resp.op = "delete_user"
        => /\ users[resp.target].role = ADMIN
                => /\ ~resp.changed
                   /\ resp.code = (IF resp.callerActive THEN 403 ELSE 400)
           /\ resp.changed
                => /\ resp.code = 200
                   /\ resp.callerActive
                   /\ users[resp.caller].role = ADMIN
                   /\ ~users[resp.target].exists

AdminNeverDeletedWitness ==
    /\ resp.op = "delete_user"
    /\ resp.caller = Admin1
    /\ resp.target = Admin1
    /\ resp.callerActive
    /\ resp.code = 403
    /\ resp.detail = "cannot_delete_admin"
    /\ ~users[Cand1].exists

-----------------------------------------------------------------------------
(* Properties of the price column, checked under SpecPurchase *)

\* C13: every membership row has the price of its plan_type in the fixed table
\* (basic 9.99, premium 19.99, professional 29.99), whichever of
\* register_candidate, confirm_payment and handle_payment_success created it,
\* and no step changes the price of a row that exists.
PriceFixedAtCreation ==
    /\ [](\A i \in DOMAIN memberships :
             memberships[i].price =
                 CASE memberships[i].plan_type = "basic" -> BasicCents
                   [] memberships[i].plan_type = "premium" -> PremiumCents
                   [] memberships[i].plan_type = "professional" -> ProfessionalCents)
    /\ [][\A i \in DOMAIN memberships :
             /\ i \in DOMAIN memberships'
             /\ memberships'[i].price = memberships[i].price]_vars

PriceFixedAtCreationWitness ==
    /\ resp.op = "confirm_payment"
    /\ resp.code = 200
    /\ resp.plan = "premium"
    /\ Len(memberships) = 3
    /\ memberships[1].status = PENDING /\ memberships[1].price = BasicCents
    /\ memberships[2].status = ACTIVE /\ memberships[2].plan_type = "basic"
    /\ memberships[2].price = BasicCents
    /\ memberships[3].status = ACTIVE /\ memberships[3].plan_type = "premium"
    /\ memberships[3].price = PremiumCents

-----------------------------------------------------------------------------
(* Properties of provider failures, checked under SpecPurchase *)

\* C14: a membership endpoint whose call to the payment provider fails answers
\* 400 and leaves membership and user rows unchanged.
ProviderFailureGives400 ==
    (resp.op \in {"create_checkout_session", "get_checkout_session",
                  "create_payment_intent", "confirm_payment", "upgrade"}
       /\ resp.detail = "stripe_error")
        => (resp.code = 400 /\ ~resp.changed)

-----------------------------------------------------------------------------
(* Properties of membership records, checked under SpecHistory *)

ValidTransitions ==
    {<<PENDING, ACTIVE>>, <<PENDING, CANCELLED>>, <<ACTIVE, EXPIRED>>, <<ACTIVE, CANCELLED>>}

\* C15: a status change that is not pending -> active, pending -> cancelled,
\* active -> expired or active -> cancelled fails with an error and leaves the
\* membership's status unchanged.
InvalidTransitionRejected ==
    (resp.op = "update_membership_status"
       /\ resp.detail # "returned_none"
       /\ resp.cur # resp.status
       /\ <<resp.cur, resp.status>> \notin ValidTransitions)
        => (resp.detail = "error" /\ memberships[resp.sid].status = resp.cur)

\* the rows of user u, the one created last first
NewestFirst(u) ==
    LET S == {i \in DOMAIN memberships : memberships[i].user_id = u}
    IN  CHOOSE f \in Orderings(S) : \A i, j \in 1..Cardinality(S) : i < j => f[i] > f[j]

\* C16: the history operation returns exactly the caller's memberships, the
\* one created last first.
HistoryNewestFirst ==
    (resp.op = "history" /\ resp.code = 200) => resp.rows = NewestFirst(resp.caller)

-----------------------------------------------------------------------------
(* Properties of replayed payments, checked under SpecReplay *)

\* C17: at most one membership row carries a given stripe_payment_intent_id,
\* also when the succeeded intent is replayed after the first membership was
\* expired or cancelled.
IntentActivatesOnce ==
    \A i, j \in DOMAIN memberships :
        (i # j /\ memberships[i].stripe_payment_intent_id # 0)
            => memberships[i].stripe_payment_intent_id # memberships[j].stripe_payment_intent_id

-----------------------------------------------------------------------------
(* Properties of concurrent reconciliation, checked under SpecRace *)

\* the active rows of u that are committed or flushed by an open request
ActiveOrFlushed(u) ==
    ActiveCount(u) + Cardinality({r \in ReqIds : reqs[r].flushed /\ reqs[r].user_id = u})

\* C18: two reconciliation executions for the same user that are both past
\* the active-membership check insert a row each, whatever the other one has
\* inserted or committed meanwhile: with both past their insert the user has
\* two active rows, committed or about to be.
RaceCreatesTwoActive ==
    \A r1, r2 \in ReqIds :
        (/\ r1 # r2
         /\ reqs[r1].user_id = reqs[r2].user_id
         /\ reqs[r1].pc \in {"activate", "commit"}
         /\ reqs[r2].pc \in {"activate", "commit"}
         /\ UserExists(reqs[r1].user_id))
            => ActiveOrFlushed(reqs[r1].user_id) >= 2

\* two webhook deliveries that both passed the check before either inserted
\* have both committed, and the user holds two active memberships
RaceCreatesTwoActiveWitness ==
    \E r1, r2 \in ReqIds :
        /\ r1 # r2
        /\ reqs[r1].kind = "webhook" /\ reqs[r2].kind = "webhook"
        /\ reqs[r1].user_id = Cand1 /\ reqs[r2].user_id = Cand1
        /\ ~reqs[r1].activeAtStart /\ ~reqs[r2].activeAtStart
        /\ reqs[r2].overlap
        /\ reqs[r1].pc = "commit" /\ reqs[r2].pc = "commit"
        /\ reqs[r1].rowCommitted /\ reqs[r2].rowCommitted
        /\ ActiveCount(Cand1) = 2

-----------------------------------------------------------------------------
(* Properties of the reconciliation entry points, checked under SpecRecon *)

\* C19: confirm-payment and handle_payment_success both query the user's
\* active membership before inserting and insert nothing when there is one: no
\* reconciliation request gets to its insert for a user who had an active
\* membership when the handler ran.
ReconciliationChecksActive ==
    \A r \in ReqIds : reqs[r].pc # "idle" => ~reqs[r].activeAtStart

-----------------------------------------------------------------------------
(* Properties of the upgrade's activation, checked under SpecPurchase *)

\* C20: once reconciliation (the webhook's success handler or confirm-payment)
\* has processed the succeeded payment intent that upgrade requested, the user
\* has a single active membership and its plan_type is the requested new plan.
UpgradeActivatesNewPlan ==
    (/\ resp.op \in {"webhook", "confirm_payment"}
     /\ resp.code = 200
     /\ resp.op = "webhook" => resp.handler = "success"
     /\ resp.sid \in IntentIds
     /\ intents[resp.sid].upgrade
     /\ intents[resp.sid].status = "succeeded")
        => /\ ActiveCount(intents[resp.sid].user_id) = 1
           /\ \A i \in ActiveRows(intents[resp.sid].user_id) :
                  memberships[i].plan_type = intents[resp.sid].plan_type

-----------------------------------------------------------------------------
(* Properties of the purchase metadata, checked under SpecPurchase *)

-----------------------------------------------------------------------------
(* Properties of activation upon payment, checked under SpecConfirm *)

-----------------------------------------------------------------------------
(* Properties of the activated plan, checked under SpecRecon *)

\* C23: every membership activated by reconciliation has the plan_type that
\* the metadata of its payment intent records, and that plan's price.
ActivatedPlanIsPaidPlan ==
    \A i \in DOMAIN memberships :
        (memberships[i].status = ACTIVE /\ memberships[i].stripe_payment_intent_id \in IntentIds)
            => /\ memberships[i].plan_type
                     = intents[memberships[i].stripe_payment_intent_id].plan_type
               /\ memberships[i].price
                     = MEMBERSHIP_PRICES(intents[memberships[i].stripe_payment_intent_id].plan_type)

-----------------------------------------------------------------------------
(* Properties of the membership lifecycle, checked under SpecRecon *)

\* C24: a membership reaches active by the pending -> active transition of
\* the row that was created pending: a user who has an active membership has
\* no row left in pending next to it, since the pending row that
\* register_candidate created is the one that became active.
PendingRowBecomesActive ==
    \A i, j \in DOMAIN memberships :
        (memberships[i].status = ACTIVE /\ memberships[j].user_id = memberships[i].user_id)
            => memberships[j].status # PENDING

-----------------------------------------------------------------------------
(* Properties of upgrades after the renewal date, checked under SpecUpgrade *)

\* C25: upgrade is rejected without asking the provider for a payment intent
\* when the active membership's renewal_date has passed, and upgrade never
\* asks for a payment intent with a negative amount.
UpgradeAfterRenewalRejected ==
    resp.op = "upgrade"
        => /\ resp.days < 0 => (resp.code = 400 /\ ~resp.provider)
           /\ resp.provider => resp.amount >= 0

-----------------------------------------------------------------------------
(* Properties of the webhook's other events, checked under SpecRecon *)

\* C26: a verified webhook event whose type is not payment_intent.succeeded
\* changes no membership and no user row, inserts nothing, and is
\* acknowledged with {"status": "success"}.
OtherEventsChangeNothing ==
    (/\ resp.op = "webhook"
     /\ resp.sig = "valid"
     /\ resp.parsed
     /\ resp.handler # "success")
        => (resp.code = 200 /\ resp.detail = "ok" /\ ~resp.changed /\ ~resp.inserted)

OtherEventsChangeNothingWitness ==
    /\ resp.op = "webhook"
    /\ resp.sig = "valid"
    /\ resp.parsed
    /\ resp.handler = "failure"
    /\ resp.caller = Cand1
    /\ resp.code = 200
    /\ memberships[1].status = PENDING

-----------------------------------------------------------------------------
(* Properties of malformed success events, checked under SpecRecon *)

\* C27: a verified success event whose metadata lacks user_id or plan_type,
\* or names a plan that is not basic, premium or professional, is answered 400
\* and changes no membership and no user row.
MalformedEventRejected ==
    (/\ resp.op = "webhook"
     /\ resp.sig = "valid"
     /\ resp.parsed
     /\ resp.handler = "success"
     /\ (resp.caller = NoMeta \/ resp.plan \notin PlanSet))
        => (resp.code = 400 /\ ~resp.changed /\ ~resp.inserted /\ NoRequestOpen)

MalformedEventRejectedWitness ==
    /\ resp.op = "webhook"
    /\ resp.sig = "valid"
    /\ resp.handler = "success"
    /\ resp.caller = Cand1
    /\ resp.plan = NoMeta
    /\ resp.code = 400
    /\ ActiveCount(Cand1) = 0

-----------------------------------------------------------------------------
(* Properties of the active-membership query, checked under SpecPurchase *)

\* C28: get_active_membership_by_user_id, as my-membership shows its result,
\* returns none when the user has no active membership and otherwise the
\* active membership that was created last.
ActiveQueryReturnsNewest ==
    (resp.op = "my_membership" /\ resp.detail \notin {"inactive", "forbidden"})
        => IF ActiveRows(resp.caller) = {}
           THEN resp.code = 404
           ELSE /\ resp.code = 200
                /\ resp.rows = <<CHOOSE i \in ActiveRows(resp.caller) :
                                     \A j \in ActiveRows(resp.caller) : j <= i>>

\* C29: under any interleaving of apply and withdraw requests there is at most
\* one application row per (candidate_id, vacancy_id) pair, and a row is never
\* inserted for a pair that already has one: such a request is answered 400
\* and inserts nothing.
OneApplicationPerPair ==
    /\ \A i, j \in DOMAIN applications :
          (/\ applications[i].exists /\ applications[j].exists
           /\ applications[i].candidate_id = applications[j].candidate_id
           /\ applications[i].vacancy_id = applications[j].vacancy_id) => i = j
    /\ (resp.op = "apply" /\ resp.dup) => (resp.code = 400 /\ ~resp.inserted)

\* C30: no message row has sender_id equal to receiver_id: a message to
\* oneself is answered 400 and inserts nothing, and a reply is addressed to
\* the other participant of the original message.
NoSelfMessage ==
    /\ \A i \in DOMAIN messages : messages[i].sender_id # messages[i].receiver_id
    /\ (resp.op = "send_message" /\ resp.detail = "self_message")
          => (resp.code = 400 /\ ~resp.inserted)
    /\ (resp.op = "reply_to_message" /\ resp.inserted)
          => (/\ resp.target # resp.caller
              /\ resp.target \in {messages[messages[Len(messages)].parent_message_id].sender_id,
                                  messages[messages[Len(messages)].parent_message_id].receiver_id})

\* The sender of a message has replied to it, and a message to oneself has
\* just been refused.
NoSelfMessageWitness ==
    /\ \E i \in DOMAIN messages :
          /\ messages[i].parent_message_id # 0
          /\ messages[messages[i].parent_message_id].sender_id = messages[i].sender_id
    /\ resp.op = "send_message" /\ resp.detail = "self_message"

=============================================================================
